---------------------------- MODULE Spec2Model ----------------------------
(***************************************************************************)
(* Model of the Bangalore subreddit analytics pipeline:                    *)
(*   topic-modeling-script.py    clean_text, assign_topic,                 *)
(*                               extract_keywords_per_topic                *)
(*   dashboard-data-generator.py generate_topic_trends,                    *)
(*                               generate_topic_distribution,              *)
(*                               generate_top_posts, generate_insights,    *)
(*                               generate_monthly_trends,                  *)
(*                               generate_topic_keywords                   *)
(*                                                                         *)
(* A Python str is a sequence of one-character strings.  A missing cell    *)
(* (pandas NaN) and a variable that has not been assigned yet (None) are   *)
(* the one-element sequences NaN and None, which no str equals.            *)
(***************************************************************************)
EXTENDS Integers, Sequences, FiniteSets, TLC

VARIABLES
    text, cleaned, recleaned,               \* clean_text: argument, result, result of a second call
    title, selftext, topic_keywords, topic, \* assign_topic: arguments and return value
    df,        \* the classified corpus, a DataFrame: the sequence of its rows
    frame,     \* the corpus as generate_insights reads it: rows per topic and year
    n,         \* generate_top_posts: n
    n_words,   \* extract_keywords_per_topic: n_words
    report,    \* the report that was run, "" before
    raised,    \* the exception the report ended with, "" when it returned
    result,    \* the value the report returned
    all_posts, \* clean_and_save_data: the raw records it is given
    ingested,  \* clean_and_save_data: the DataFrame it saves and returns
    current_after, \* collect_year_data: the cursor
    n_posts,       \* collect_year_data: len(all_posts)
    posts,         \* collect_year_data: the page last fetched
    pc,            \* collect_year_data: "loop" at the loop test, "done" after the loop
    dashboard_data, \* main of the dashboard generator: the items computed so far
    output_file,    \* the content of OUTPUT_FILE
    loaded          \* the document read back from OUTPUT_FILE

textVars == <<text, cleaned, recleaned>>
topicVars == <<title, selftext, topic_keywords, topic>>
reportVars == <<df, frame, n, n_words, report, raised, result>>
ingestVars == <<all_posts, ingested>>
collectVars == <<current_after, n_posts, posts, pc>>
mainVars == <<dashboard_data, output_file, loaded>>
runVars == <<ingestVars, collectVars, mainVars>>
vars == <<textVars, topicVars, reportVars, runVars>>

NaN == <<"NaN">>
None == <<"None">>
\* the topic column of a row that has not been classified yet
NoTopic == "<unassigned>"

\* the variables of the parts of the pipeline a specification does not run
IdleText == text = None /\ cleaned = None /\ recleaned = None
IdleTopic == title = None /\ selftext = None /\ topic_keywords = <<>> /\ topic = NoTopic
IdleReports ==
    /\ df = <<>> /\ frame = <<>> /\ n = 0 /\ n_words = 0
    /\ report = "" /\ raised = "" /\ result = None

\* OUTPUT_FILE before main has opened it: whatever it held is not modelled
Untouched == [state |-> "untouched", content |-> <<>>]

\* nothing has been read from OUTPUT_FILE
NotLoaded == [read |-> FALSE, document |-> <<>>]

IdleIngest == all_posts = <<>> /\ ingested = None
IdleCollect == current_after = 0 /\ n_posts = 0 /\ posts = None /\ pc = ""
IdleMain == dashboard_data = <<>> /\ output_file = Untouched /\ loaded = NotLoaded
IdleRun == IdleIngest /\ IdleCollect /\ IdleMain

(***************************************************************************)
(* Characters                                                              *)
(***************************************************************************)
UpperLetters == <<"A","B","C","D","E","F","G","H","I","J","K","L","M",
                  "N","O","P","Q","R","S","T","U","V","W","X","Y","Z">>
LowerLetters == <<"a","b","c","d","e","f","g","h","i","j","k","l","m",
                  "n","o","p","q","r","s","t","u","v","w","x","y","z">>

IsUpper(c) == \E i \in 1..26 : UpperLetters[i] = c
IsLower(c) == \E i \in 1..26 : LowerLetters[i] = c
\* \s of the re module, str.split() separators
IsSpace(c) == c \in {" ", "\t", "\n"}

\* str.lower(), one character
LowerChar(c) ==
    IF IsUpper(c) THEN LowerLetters[CHOOSE i \in 1..26 : UpperLetters[i] = c] ELSE c

\* str.lower()
Lower(s) == [i \in 1..Len(s) |-> LowerChar(s[i])]

\* s.startswith(p, i-1) of Python with a 1-based i
StartsWithAt(s, p, i) ==
    /\ i + Len(p) - 1 <= Len(s)
    /\ \A k \in 1..Len(p) : s[i + k - 1] = p[k]

\* the length of the longest run of non-whitespace characters that starts at i: \S* at i
RECURSIVE NonSpaceRun(_, _)
NonSpaceRun(s, i) ==
    IF i > Len(s) \/ IsSpace(s[i]) THEN 0 ELSE 1 + NonSpaceRun(s, i + 1)

\* the length of the match of  prefix\S+  at i, 0 when there is none
UrlAlt(s, prefix, i) ==
    IF StartsWithAt(s, prefix, i) /\ NonSpaceRun(s, i + Len(prefix)) >= 1
    THEN Len(prefix) + NonSpaceRun(s, i + Len(prefix))
    ELSE 0

\* the length of the match of  http\S+|www\S+|https\S+  at i (first alternative
\* that matches), 0 when there is none
UrlMatch(s, i) ==
    IF UrlAlt(s, <<"h","t","t","p">>, i) > 0 THEN UrlAlt(s, <<"h","t","t","p">>, i)
    ELSE IF UrlAlt(s, <<"w","w","w">>, i) > 0 THEN UrlAlt(s, <<"w","w","w">>, i)
    ELSE UrlAlt(s, <<"h","t","t","p","s">>, i)

\* re.sub(r'http\S+|www\S+|https\S+', '', text): leftmost non-overlapping matches
RECURSIVE RemoveUrlsFrom(_, _)
RemoveUrlsFrom(s, i) ==
    IF i > Len(s) THEN <<>>
    ELSE IF UrlMatch(s, i) > 0 THEN RemoveUrlsFrom(s, i + UrlMatch(s, i))
    ELSE <<s[i]>> \o RemoveUrlsFrom(s, i + 1)

RemoveUrls(s) == RemoveUrlsFrom(s, 1)

\* re.sub(r'[^a-zA-Z\s]', '', text): the special characters deleted instead of blanked
RemoveSpecial(s) ==
    SelectSeq(s, LAMBDA c : IsLower(c) \/ IsUpper(c) \/ IsSpace(c))

\* re.sub(r'[^a-zA-Z\s]', ' ', text)
BlankSpecial(s) ==
    [i \in 1..Len(s) |-> IF IsLower(s[i]) \/ IsUpper(s[i]) \/ IsSpace(s[i]) THEN s[i] ELSE " "]

\* text.split(): the maximal runs of non-whitespace characters, in order
RECURSIVE SplitFrom(_, _)
SplitFrom(s, i) ==
    IF i > Len(s) THEN <<>>
    ELSE IF IsSpace(s[i]) THEN SplitFrom(s, i + 1)
    ELSE <<SubSeq(s, i, i + NonSpaceRun(s, i) - 1)>> \o SplitFrom(s, i + NonSpaceRun(s, i))

Split(s) == SplitFrom(s, 1)

\* sep.join(words)
RECURSIVE Join(_, _)
Join(sep, words) ==
    IF words = <<>> THEN <<>>
    ELSE IF Len(words) = 1 THEN words[1]
    ELSE words[1] \o sep \o Join(sep, Tail(words))

\* clean_text(text)
clean_text(t) ==
    IF t = NaN THEN <<>>
    ELSE Join(<<" ">>, Split(BlankSpecial(RemoveUrls(Lower(t)))))

(***************************************************************************)
(* Inputs of clean_text: texts put together from fragments that hold the    *)
(* pieces of the URL patterns, whitespace, a special character and an       *)
(* upper-case letter.                                                       *)
(***************************************************************************)
MaxFrags == 4

Fragments == { <<"h","t">>, <<"t","p">>, <<"h","t","t","p">>, <<"w","w","w">>,
               <<"w">>, <<" ">>, <<":">>, <<"H">> }

RECURSIVE Concat(_)
Concat(ss) == IF ss = <<>> THEN <<>> ELSE ss[1] \o Concat(Tail(ss))

SeqsUpTo(S, k) == UNION { [1..m -> S] : m \in 0..k }

Texts == { Concat(fs) : fs \in SeqsUpTo(Fragments, MaxFrags) }

InitClean ==
    /\ text \in Texts \cup {NaN}
    /\ cleaned = None /\ recleaned = None
    /\ IdleTopic /\ IdleReports /\ IdleRun

\* cleaned = clean_text(text)
Clean ==
    /\ cleaned = None
    /\ cleaned' = clean_text(text)
    /\ UNCHANGED <<text, recleaned, topicVars, reportVars, runVars>>

\* recleaned = clean_text(cleaned)
CleanAgain ==
    /\ cleaned # None /\ recleaned = None
    /\ recleaned' = clean_text(cleaned)
    /\ UNCHANGED <<text, cleaned, topicVars, reportVars, runVars>>

NextClean == Clean \/ CleanAgain

SpecClean == InitClean /\ [][NextClean]_vars

\* C8: clean_text is idempotent, clean_text(clean_text(x)) = clean_text(x) for every
\* string x, and for an absent input (NaN) it returns the empty string.
C8_CleanIdempotent ==
    /\ recleaned # None => recleaned = cleaned
    /\ (text = NaN /\ cleaned # None) => cleaned = <<>>

\* 'ht:tpw' has been cleaned twice: the special character became a space, so that no
\* URL prefix was formed, and the second cleaning had nothing to change
C8_Witness ==
    /\ text = <<"h","t",":","t","p","w">>
    /\ cleaned = <<"h","t"," ","t","p","w">>
    /\ recleaned = cleaned

(***************************************************************************)
(* assign_topic.  A taxonomy (the dict topic_keywords) is the sequence of   *)
(* its items in insertion order; an item is [topic, keywords].              *)
(***************************************************************************)
FALLBACK == "General_Discussion"

\* f"{x}": a missing cell is the float nan, formatted as "nan"
Format(x) == IF x = NaN THEN <<"n","a","n">> ELSE x

\* s.count(sub) counted from the 1-based position i: non-overlapping occurrences
RECURSIVE CountFrom(_, _, _)
CountFrom(s, sub, i) ==
    IF sub = <<>> THEN Len(s) + 2 - i
    ELSE IF i + Len(sub) - 1 > Len(s) THEN 0
    ELSE IF StartsWithAt(s, sub, i) THEN 1 + CountFrom(s, sub, i + Len(sub))
    ELSE CountFrom(s, sub, i + 1)

\* combined_text.count(keyword.lower())
Count(s, keyword) == CountFrom(s, Lower(keyword), 1)

\* score of one topic: the sum of the counts of its keywords
RECURSIVE KeywordScore(_, _)
KeywordScore(combined_text, keywords) ==
    IF keywords = <<>> THEN 0
    ELSE Count(combined_text, keywords[1]) + KeywordScore(combined_text, Tail(keywords))

\* combined_text = clean_text(f"{title} {selftext}")
CombinedText(ti, st) == clean_text(Format(ti) \o <<" ">> \o Format(st))

\* the dict topic_scores as its items in insertion order: every topic but the
\* fallback, with its score
RECURSIVE TopicScores(_, _)
TopicScores(combined_text, tk) ==
    IF tk = <<>> THEN <<>>
    ELSE (IF tk[1].topic = FALLBACK THEN <<>>
          ELSE << [topic |-> tk[1].topic,
                   score |-> KeywordScore(combined_text, tk[1].keywords)] >>)
         \o TopicScores(combined_text, Tail(tk))

\* max(topic_scores.values())
MaxScore(scores) ==
    CHOOSE m \in {scores[i].score : i \in 1..Len(scores)} :
        \A i \in 1..Len(scores) : scores[i].score <= m

\* the last key with the greatest value
LastBest(scores) ==
    scores[CHOOSE i \in 1..Len(scores) :
              /\ scores[i].score = MaxScore(scores)
              /\ \A j \in (i+1)..Len(scores) : scores[j].score < MaxScore(scores)].topic

\* max(topic_scores, key=topic_scores.get): the first key, in iteration order, with
\* the greatest value
Best(scores) ==
    scores[CHOOSE i \in 1..Len(scores) :
              /\ scores[i].score = MaxScore(scores)
              /\ \A j \in 1..(i-1) : scores[j].score < MaxScore(scores)].topic

\* topic_scores and max(topic_scores.values()) >= 0
AnyScored(scores) == scores # <<>> /\ MaxScore(scores) >= 0

\* topic_scores and max(topic_scores.values()) > 0
AnyMatch(scores) == scores # <<>> /\ MaxScore(scores) > 0

\* assign_topic(title, selftext, topic_keywords)
assign_topic(ti, st, tk) ==
    LET combined_text == CombinedText(ti, st)
        topic_scores == TopicScores(combined_text, tk)
    IN  IF AnyMatch(topic_scores) THEN Best(topic_scores) ELSE FALLBACK

(***************************************************************************)
(* Inputs of assign_topic: keywords of TOPIC_KEYWORDS that contain one      *)
(* another ('park' in 'parking'), taxonomies that declare them in both      *)
(* orders, a fallback that carries keywords, an upper-case keyword.         *)
(***************************************************************************)
MaxTitleFrags == 2
MaxBodyFrags == 1

kw_bus == <<"b","u","s">>
kw_park == <<"p","a","r","k">>
kw_parking == <<"p","a","r","k","i","n","g">>
kw_eat == <<"e","a","t">>

Item(t, kws) == [topic |-> t, keywords |-> kws]

Taxonomies ==
    { << Item("Traffic", <<kw_bus, kw_parking>>), Item("Food", <<kw_eat>>),
         Item("Infrastructure", <<kw_park>>), Item(FALLBACK, <<>>) >>,
      << Item("Infrastructure", <<kw_park>>), Item("Food", <<kw_eat>>),
         Item("Traffic", <<kw_bus, kw_parking>>), Item(FALLBACK, <<>>) >>,
      << Item(FALLBACK, <<kw_bus>>), Item("Food", <<kw_eat>>),
         Item("Traffic", << <<"P","a","r","k","i","n","g">> >>) >>,
      << Item(FALLBACK, <<>>) >> }

PostFragments == { kw_bus, kw_park, <<"i","n","g">>, <<" ">>,
                   <<"E","A","T">>, <<"w","w","w">> }

PostTexts(k) == { Concat(fs) : fs \in SeqsUpTo(PostFragments, k) }

InitAssign ==
    /\ title \in PostTexts(MaxTitleFrags) \cup {NaN}
    /\ selftext \in PostTexts(MaxBodyFrags) \cup {NaN}
    /\ topic_keywords \in Taxonomies
    /\ topic = NoTopic
    /\ IdleText /\ IdleReports /\ IdleRun

\* topic = assign_topic(row['title'], row['selftext'], topic_keywords)
Assign ==
    /\ topic = NoTopic
    /\ topic' = assign_topic(title, selftext, topic_keywords)
    /\ UNCHANGED <<textVars, title, selftext, topic_keywords, reportVars, runVars>>

NextAssign == Assign

SpecAssign == InitAssign /\ [][NextAssign]_vars

\* the names of a taxonomy
TopicNames(tk) == { tk[i].topic : i \in 1..Len(tk) }

\* the score of item i of the taxonomy on the normalized text
ScoreOn(combined_text, i) == KeywordScore(combined_text, topic_keywords[i].keywords)

\* the score of item i of the taxonomy on the normalized title + body
ScoreOf(i) == ScoreOn(CombinedText(title, selftext), i)

NonFallback == { i \in 1..Len(topic_keywords) : topic_keywords[i].topic # FALLBACK }

\* C1: assign_topic returns a topic name of the taxonomy; it returns the fallback
\* (General_Discussion) if and only if every non-fallback topic scores zero on the
\* normalized title + body; a non-fallback topic is never returned with score zero.
C1_TopicInTaxonomy ==
    topic # NoTopic =>
        LET combined_text == CombinedText(title, selftext)
        IN  /\ topic \in TopicNames(topic_keywords)
            /\ (topic = FALLBACK) <=> (\A i \in NonFallback : ScoreOn(combined_text, i) = 0)
            /\ \A i \in NonFallback :
                  topic_keywords[i].topic = topic => ScoreOn(combined_text, i) > 0

\* one post was given the fallback with every score zero although its text holds a
\* keyword inside a URL and a keyword of the fallback item
C1_Witness ==
    /\ topic = FALLBACK
    /\ title = <<"w","w","w","E","A","T">>
    /\ selftext = kw_bus
    /\ Len(topic_keywords) = 3

\* C2: when several non-fallback topics share the greatest positive score, the one
\* declared first in the taxonomy is returned.
C2_FirstDeclaredWins ==
    (topic # NoTopic /\ topic # FALLBACK) =>
        LET combined_text == CombinedText(title, selftext)
        IN  \E i \in NonFallback :
                /\ topic_keywords[i].topic = topic
                /\ \A j \in NonFallback :
                      ScoreOn(combined_text, j) <= ScoreOn(combined_text, i)
                /\ \A j \in NonFallback :
                      j < i => ScoreOn(combined_text, j) < ScoreOn(combined_text, i)

\* 'parking' scores 1 for Traffic and 1 for Infrastructure, and Infrastructure, which
\* this taxonomy declares first, was returned
C2_Witness ==
    /\ topic = "Infrastructure"
    /\ title = kw_parking /\ selftext = <<>>
    /\ topic_keywords[1].topic = "Infrastructure"
    /\ \E i, j \in NonFallback : i < j /\ ScoreOf(i) = 1 /\ ScoreOf(j) = 1

(***************************************************************************)
(* The classified corpus.  A row of the DataFrame is                        *)
(*   [topic, created_utc, score, title, selftext]                           *)
(* with created_utc the date <<year, month, day>>.  The derived columns     *)
(* year and year_month of load_and_prepare_data are the operators Year and  *)
(* YearMonth.                                                               *)
(***************************************************************************)
Row(t, c, sc, ti, st) ==
    [topic |-> t, created_utc |-> c, score |-> sc, title |-> ti, selftext |-> st]

Digits == <<"0","1","2","3","4","5","6","7","8","9">>

\* the decimal digits of x, zero-padded to the width w
RECURSIVE Decimal(_, _)
Decimal(x, w) ==
    IF w = 0 THEN <<>> ELSE Decimal(x \div 10, w - 1) \o <<Digits[(x % 10) + 1]>>

\* df['year'] = df['created_utc'].dt.year
Year(row) == row.created_utc[1]

\* df['year_month'] = df['created_utc'].dt.to_period('M').astype(str): 'YYYY-MM'
YearMonth(row) ==
    Decimal(row.created_utc[1], 4) \o <<"-">> \o Decimal(row.created_utc[2], 2)

\* ord(c) of the characters of a 'YYYY-MM' string
CharCode(c) == IF c = "-" THEN 45 ELSE 47 + (CHOOSE i \in 1..10 : Digits[i] = c)

\* a < b of two str: lexicographic by code point
RECURSIVE StrLess(_, _)
StrLess(a, b) ==
    IF b = <<>> THEN FALSE
    ELSE IF a = <<>> THEN TRUE
    ELSE IF a[1] = b[1] THEN StrLess(Tail(a), Tail(b))
    ELSE CharCode(a[1]) < CharCode(b[1])

RECURSIVE SumSeq(_)
SumSeq(s) == IF s = <<>> THEN 0 ELSE s[1] + SumSeq(Tail(s))

Min(a, b) == IF a <= b THEN a ELSE b

\* s[:k] of Python, k >= 0
Take(s, k) == SubSeq(s, 1, Min(k, Len(s)))

\* Series.unique(): the distinct values in order of first appearance
RECURSIVE Unique(_)
Unique(s) ==
    IF s = <<>> THEN <<>>
    ELSE LET u == Unique(SubSeq(s, 1, Len(s) - 1))
         IN  IF \E i \in 1..Len(u) : u[i] = s[Len(s)] THEN u ELSE Append(u, s[Len(s)])

\* the positions of keys in ascending order of key, equal keys in their original
\* order: a stable sort
RECURSIVE Order(_)
Order(keys) ==
    IF keys = <<>> THEN <<>>
    ELSE LET m == Len(keys)
             rest == Order(SubSeq(keys, 1, m - 1))
             k == Cardinality({i \in 1..Len(rest) : keys[rest[i]] <= keys[m]})
         IN  SubSeq(rest, 1, k) \o <<m>> \o SubSeq(rest, k + 1, Len(rest))

\* sorted(s, key=...), keys[i] the key of s[i]
SortedAsc(s, keys) == LET o == Order(keys) IN [i \in 1..Len(s) |-> s[o[i]]]

\* sorted(s, key=..., reverse=True): descending, equal keys in their original order
SortedDesc(s, keys) == SortedAsc(s, [i \in 1..Len(keys) |-> 0 - keys[i]])

\* sorted(S) of a set of int
RECURSIVE SortedInts(_)
SortedInts(S) ==
    IF S = {} THEN <<>>
    ELSE LET m == CHOOSE x \in S : \A y \in S : x <= y
         IN  <<m>> \o SortedInts(S \ {m})

\* sorted(S) of a set of str
RECURSIVE SortedStrs(_)
SortedStrs(S) ==
    IF S = {} THEN <<>>
    ELSE LET m == CHOOSE x \in S : \A y \in S \ {x} : StrLess(x, y)
         IN  <<m>> \o SortedStrs(S \ {m})

Topics(d) == [i \in 1..Len(d) |-> d[i].topic]
TopicSet(d) == {d[i].topic : i \in 1..Len(d)}

\* len(df[df['topic'] == t])
TopicCount(d, t) == Cardinality({i \in 1..Len(d) : d[i].topic = t})

RECURSIVE Perms(_)
Perms(S) ==
    IF S = {} THEN {<<>>}
    ELSE UNION {{<<x>> \o q : q \in Perms(S \ {x})} : x \in S}

\* the orders of the topics S by descending count; topics of equal count in any order
RECURSIVE CountOrders(_, _)
CountOrders(d, S) ==
    IF S = {} THEN {<<>>}
    ELSE LET m == CHOOSE c \in {TopicCount(d, t) : t \in S} :
                      \A t \in S : TopicCount(d, t) <= c
             G == {t \in S : TopicCount(d, t) = m}
         IN  {q \o r : q \in Perms(G), r \in CountOrders(d, S \ G)}

\* df['topic'].value_counts(): the index of the Series, sorted by descending count.
\* pandas sorts with a sort that is not stable, so the order of topics of equal count
\* is any order.  The counts are TopicCount.
value_counts(d) == CountOrders(d, TopicSet(d))

\* the topic names of TOPIC_KEYWORDS sorted as str
TopicsSorted ==
    << "Culture_Events", "Education", "Food", "General_Discussion", "Health",
       "Housing_Rent", "Infrastructure", "Jobs_Career", "Language", "Pets_Animals",
       "Politics", "Safety_Law", "Social_Life", "Traffic", "Weather" >>

\* the rank of a topic name in the str order
TopicRank(t) == CHOOSE i \in 1..Len(TopicsSorted) : TopicsSorted[i] = t

\* topic.replace('_', ' & ')
Display(t) ==
    CASE t = "Culture_Events" -> "Culture & Events"
      [] t = "General_Discussion" -> "General & Discussion"
      [] t = "Housing_Rent" -> "Housing & Rent"
      [] t = "Jobs_Career" -> "Jobs & Career"
      [] t = "Pets_Animals" -> "Pets & Animals"
      [] t = "Safety_Law" -> "Safety & Law"
      [] t = "Social_Life" -> "Social & Life"
      [] OTHER -> t

\* topic_colors.get(topic, '#6b7280')
TopicColor(t) ==
    CASE t = "Traffic" -> "#ef4444"
      [] t = "Housing_Rent" -> "#f59e0b"
      [] t = "Food" -> "#10b981"
      [] t = "Infrastructure" -> "#3b82f6"
      [] t = "Jobs_Career" -> "#8b5cf6"
      [] t = "Safety_Law" -> "#ec4899"
      [] t = "Culture_Events" -> "#14b8a6"
      [] t = "Language" -> "#f97316"
      [] t = "Social_Life" -> "#06b6d4"
      [] t = "Health" -> "#84cc16"
      [] t = "Weather" -> "#a855f7"
      [] t = "Politics" -> "#f43f5e"
      [] t = "Pets_Animals" -> "#22c55e"
      [] t = "Education" -> "#eab308"
      [] OTHER -> "#6b7280"

(***************************************************************************)
(* generate_topic_trends.  A record {'year': y, t1: c1, t2: c2, ...} is      *)
(* [year |-> y, counts |-> <<[topic |-> t1, count |-> c1], ...>>], the      *)
(* counts in the order of the keys.                                         *)
(***************************************************************************)
\* the counts of a year over the whole corpus instead of year_df
YearCountsUnfiltered(d, year, all_topics) ==
    [k \in 1..Len(all_topics) |->
        [topic |-> all_topics[k], count |-> TopicCount(d, all_topics[k])]]

\* year_df = df[df['year'] == year]; topic_counts = year_df['topic'].value_counts();
\* year_data[topic] = int(topic_counts.get(topic, 0)) for topic in all_topics
YearCounts(d, year, all_topics) ==
    [k \in 1..Len(all_topics) |->
        [topic |-> all_topics[k],
         count |-> Cardinality({i \in 1..Len(d) :
                                  Year(d[i]) = year /\ d[i].topic = all_topics[k]})]]

generate_topic_trends(d) ==
    LET all_topics == Unique(Topics(d))
        all_years == SortedInts({Year(d[i]) : i \in 1..Len(d)})
    IN  [j \in 1..Len(all_years) |->
            [year |-> all_years[j], counts |-> YearCounts(d, all_years[j], all_topics)]]

(***************************************************************************)
(* generate_topic_distribution                                              *)
(***************************************************************************)
\* the distribution listed in the order of df['topic'].unique()
DistributionUnsorted(d, vc) ==
    LET u == Unique(Topics(d))
    IN  [k \in 1..Len(u) |->
            [name |-> Display(u[k]), value |-> TopicCount(d, u[k]),
             color |-> TopicColor(u[k])]]

\* vc is df['topic'].value_counts()
generate_topic_distribution(d, vc) ==
    [k \in 1..Len(vc) |->
        [name |-> Display(vc[k]), value |-> TopicCount(d, vc[k]),
         color |-> TopicColor(vc[k])]]

(***************************************************************************)
(* generate_top_posts.  An entry carries topic, title, year and score of    *)
(* its row; num_comments, a column no report reads, is not modelled.        *)
(***************************************************************************)
TopTopics == 8
PerTopic == 3
TitleLimit == 100

\* post['title'][:100] + ('...' if len(post['title']) > 100 else '')
Truncate(ti) ==
    Take(ti, TitleLimit) \o (IF Len(ti) > TitleLimit THEN <<".", ".", ".">> ELSE <<>>)

Scores(rows) == [i \in 1..Len(rows) |-> rows[i].score]

\* df[df['topic'] == topic]
RowsOf(d, t) == SelectSeq(d, LAMBDA r : r.topic = t)

\* rows.head(k): the first k rows, whatever their score
FirstRows(rows, k) == Take(rows, k)

\* rows.nlargest(k, 'score'): the k rows of greatest score, by descending score, rows
\* of equal score in their original order (keep='first')
NLargest(rows, k) == Take(SortedDesc(rows, Scores(rows)), k)

TopEntry(t, post) ==
    [topic |-> t, title |-> Truncate(post.title), year |-> Year(post),
     score |-> post.score]

\* the list top_posts after the loop over top_topics
RECURSIVE TopPool(_, _)
TopPool(d, top_topics) ==
    IF top_topics = <<>> THEN <<>>
    ELSE LET topic_df == NLargest(RowsOf(d, top_topics[1]), PerTopic)
         IN  [i \in 1..Len(topic_df) |-> TopEntry(top_topics[1], topic_df[i])]
             \o TopPool(d, Tail(top_topics))

\* vc is df['topic'].value_counts(); nn >= 0
generate_top_posts(d, nn, vc) ==
    LET pool == TopPool(d, Take(vc, TopTopics))
    IN  Take(SortedDesc(pool, Scores(pool)), nn)

(***************************************************************************)
(* generate_monthly_trends.  A record {'month': m, t1: c1, ...} is           *)
(* [month |-> m, counts |-> <<[topic |-> t1, count |-> c1], ...>>].         *)
(***************************************************************************)
\* the rows of  monthly[monthly['year_month'] == month]: groupby sorts the groups by
\* key, so the topics that have a row in the month, in str order, with their sizes
MonthGroups(d, month) ==
    LET ranks == SortedInts({TopicRank(d[i].topic) :
                               i \in {i \in 1..Len(d) : YearMonth(d[i]) = month}})
    IN  [k \in 1..Len(ranks) |->
            [topic |-> TopicsSorted[ranks[k]],
             count |-> Cardinality({i \in 1..Len(d) :
                          YearMonth(d[i]) = month /\ d[i].topic = TopicsSorted[ranks[k]]})]]

generate_monthly_trends(d) ==
    LET months == SortedStrs({YearMonth(d[i]) : i \in 1..Len(d)})
    IN  [j \in 1..Len(months) |->
            [month |-> months[j], counts |-> MonthGroups(d, months[j])]]

(***************************************************************************)
(* Keyword extraction: extract_keywords_per_topic of the topic modeling      *)
(* script and generate_topic_keywords of the dashboard generator.  The      *)
(* returned dict is the sequence of its items [topic, words].               *)
(***************************************************************************)
MinWordLen == 3
DashboardKeywords == 5

\* stop_words of extract_keywords_per_topic
StopWords ==
    { <<"t","h","e">>, <<"i","s">>, <<"i","n">>, <<"a","n","d">>,
      <<"t","o">>, <<"a">>, <<"o","f">>, <<"f","o","r">>, <<"o","n">>,
      <<"w","i","t","h">>, <<"t","h","i","s">>, <<"t","h","a","t">>,
      <<"i","t">>, <<"f","r","o","m">>, <<"a","r","e">>, <<"w","a","s">>,
      <<"b","e">>, <<"h","a","v","e">>, <<"h","a","s">>,
      <<"b","e","e","n">> }

\* stop_words of generate_topic_keywords
DashboardStopWords ==
    { <<"t","h","e">>, <<"i","s">>, <<"i","n">>, <<"a","n","d">>,
      <<"t","o">>, <<"a">>, <<"o","f">>, <<"f","o","r">>, <<"o","n">>,
      <<"w","i","t","h">>, <<"t","h","i","s">>, <<"t","h","a","t">>,
      <<"i","t">>, <<"f","r","o","m">>, <<"a","r","e">>, <<"w","a","s">>,
      <<"b","e">>, <<"h","a","v","e">>, <<"h","a","s">>,
      <<"b","e","e","n">>, <<"m","y">>, <<"i">>, <<"y","o","u">>,
      <<"m","e">>, <<"w","e">>, <<"t","h","e","y">> }

\* Series.fillna('')
FillNa(x) == IF x = NaN THEN <<>> ELSE x

\* \w of the re module, on the characters of the model
IsWordChar(c) ==
    IsLower(c) \/ IsUpper(c) \/ c = "_" \/ \E i \in 1..10 : Digits[i] = c

\* the length of the longest run of [a-z] that starts at i
RECURSIVE LowerRun(_, _)
LowerRun(s, i) ==
    IF i > Len(s) \/ ~IsLower(s[i]) THEN 0 ELSE 1 + LowerRun(s, i + 1)

\* re.findall(r'\b[a-z]+\b', s): the runs of [a-z] with no \w character on either side
RECURSIVE FindWordsFrom(_, _)
FindWordsFrom(s, i) ==
    IF i > Len(s) THEN <<>>
    ELSE IF /\ IsLower(s[i])
            /\ (i = 1 \/ ~IsWordChar(s[i - 1]))
            /\ (i + LowerRun(s, i) > Len(s) \/ ~IsWordChar(s[i + LowerRun(s, i)]))
         THEN <<SubSeq(s, i, i + LowerRun(s, i) - 1)>>
              \o FindWordsFrom(s, i + LowerRun(s, i))
         ELSE FindWordsFrom(s, i + 1)

FindWords(s) == FindWordsFrom(s, 1)

\* [w for w in words if w not in stop_words and len(w) > 3]
KeepWords(words, stop_words) ==
    SelectSeq(words, LAMBDA w : w \notin stop_words /\ Len(w) > MinWordLen)

WordCount(words, w) == Cardinality({i \in 1..Len(words) : words[i] = w})

\* the k most frequent words, words of equal count in alphabetical order of their
\* first letter instead of first occurrence
MostCommonUnordered(words, k) ==
    LET u == Unique(words)
        byLetter == SortedAsc(u, [i \in 1..Len(u) |->
                        CHOOSE j \in 1..26 : LowerLetters[j] = u[i][1]])
    IN  Take(SortedDesc(byLetter, [i \in 1..Len(byLetter) |-> WordCount(words, byLetter[i])]), k)

\* [word for word, count in Counter(words).most_common(k)]: a Counter keeps its keys
\* in order of first occurrence, most_common sorts them by descending count with a
\* stable sort
MostCommon(words, k) ==
    LET u == Unique(words)
    IN  Take(SortedDesc(u, [i \in 1..Len(u) |-> WordCount(words, u[i])]), k)

\* the words of extract_keywords_per_topic for one topic:
\* ' '.join(title.fillna('') + ' ' + selftext.fillna('')), clean_text, split, filter
TopicWords(d, t) ==
    LET topic_posts == RowsOf(d, t)
        all_text == Join(<<" ">>, [i \in 1..Len(topic_posts) |->
                        FillNa(topic_posts[i].title) \o <<" ">>
                        \o FillNa(topic_posts[i].selftext)])
    IN  KeepWords(Split(clean_text(all_text)), StopWords)

\* extract_keywords_per_topic(df, n_words)
extract_keywords_per_topic(d, nw) ==
    LET u == Unique(Topics(d))
    IN  [k \in 1..Len(u) |->
            [topic |-> u[k], words |-> MostCommon(TopicWords(d, u[k]), nw)]]

\* the words of generate_topic_keywords for one topic:
\* ' '.join(title.fillna('').astype(str)), lower, findall, filter
DashboardTopicWords(d, t) ==
    LET topic_df == RowsOf(d, t)
        all_text == Join(<<" ">>, [i \in 1..Len(topic_df) |-> FillNa(topic_df[i].title)])
    IN  KeepWords(FindWords(Lower(all_text)), DashboardStopWords)

\* generate_topic_keywords(df)
generate_topic_keywords(d) ==
    LET u == Unique(Topics(d))
    IN  [k \in 1..Len(u) |->
            [topic |-> u[k],
             words |-> MostCommon(DashboardTopicWords(d, u[k]), DashboardKeywords)]]

(***************************************************************************)
(* generate_insights.  The growth analysis reads the corpus only through    *)
(* the number of rows of each topic in each year, so it is modelled on a    *)
(* frame                                                                    *)
(*   [years  |-> the years in ascending order,                              *)
(*    topics |-> <<[topic |-> t, rows |-> <<rows of t in years[1], ...>>]>>]*)
(* with the topics in order of first appearance.  FrameOf gives the frame   *)
(* of a DataFrame.  The returned dict is modelled with the keys             *)
(* total_posts, years_analyzed, topics_tracked, trending_topics and         *)
(* posts_per_year; date_range, top_topic, the averages and most_discussed   *)
(* are not.  A growth_rate is held in tenths of a percent (767 is 76.7).    *)
(* The float arithmetic of lines 152-157 agrees with the exact arithmetic   *)
(* used here for every first_count below 80.                                *)
(***************************************************************************)
MinFirstCount == 5
MinGrowth == 30
MaxTrending == 5

FrameOf(d) ==
    LET ys == SortedInts({Year(d[i]) : i \in 1..Len(d)})
        u == Unique(Topics(d))
    IN  [years |-> ys,
         topics |-> [k \in 1..Len(u) |->
            [topic |-> u[k],
             rows |-> [j \in 1..Len(ys) |->
                Cardinality({i \in 1..Len(d) : Year(d[i]) = ys[j] /\ d[i].topic = u[k]})]]]]

\* the number of rows of year years[j]
RowsInYear(fr, j) == SumSeq([k \in 1..Len(fr.topics) |-> fr.topics[k].rows[j]])

\* len(df)
FrameLen(fr) == SumSeq([j \in 1..Len(fr.years) |-> RowsInYear(fr, j)])

\* the year of the k-th row when the rows are sorted by year
KthYear(fr, k) ==
    fr.years[CHOOSE j \in 1..Len(fr.years) :
                /\ SumSeq([i \in 1..(j - 1) |-> RowsInYear(fr, i)]) < k
                /\ k <= SumSeq([i \in 1..j |-> RowsInYear(fr, i)])]

\* twice df['year'].median(): the middle year, or the mean of the two middle years
Median2(fr) ==
    LET len == FrameLen(fr)
    IN  IF len % 2 = 1 THEN 2 * KthYear(fr, (len + 1) \div 2)
        ELSE KthYear(fr, len \div 2) + KthYear(fr, len \div 2 + 1)

\* len(first_half[first_half['topic'] == topic]), first_half = df[df['year'] <= midpoint_year];
\* midpoint2 is twice midpoint_year
FirstCount(fr, k, midpoint2) ==
    SumSeq([j \in 1..Len(fr.years) |->
              IF 2 * fr.years[j] <= midpoint2 THEN fr.topics[k].rows[j] ELSE 0])

\* len(second_half[second_half['topic'] == topic]), second_half = df[df['year'] > midpoint_year]
SecondCount(fr, k, midpoint2) ==
    SumSeq([j \in 1..Len(fr.years) |->
              IF 2 * fr.years[j] > midpoint2 THEN fr.topics[k].rows[j] ELSE 0])

Abs(x) == IF x < 0 THEN 0 - x ELSE x

\* round(((second - first) / first) * 100, 1) in tenths: round half to even
GrowthRate(first, second) ==
    LET a == Abs(second - first) * 1000
        q == a \div first
        r == a % first
        mag == IF 2 * r > first \/ (2 * r = first /\ q % 2 = 1) THEN q + 1 ELSE q
    IN  IF second < first THEN 0 - mag ELSE mag

\* first_count >= 5 instead of first_count > 5
SignificantAtLeast(first, second) ==
    /\ first >= MinFirstCount
    /\ Abs(second - first) * 100 > MinGrowth * first

\* first_count > 5 and abs(growth_rate) > 30, growth_rate not rounded
Significant(first, second) ==
    /\ first > MinFirstCount
    /\ Abs(second - first) * 100 > MinGrowth * first

\* the list growth_topics after the loop over df['topic'].unique(), from topic k on
RECURSIVE GrowthTopicsFrom(_, _, _)
GrowthTopicsFrom(fr, midpoint2, k) ==
    IF k > Len(fr.topics) THEN <<>>
    ELSE LET first_count == FirstCount(fr, k, midpoint2)
             second_count == SecondCount(fr, k, midpoint2)
         IN  (IF Significant(first_count, second_count)
              THEN << [topic |-> Display(fr.topics[k].topic),
                       growth_rate |-> GrowthRate(first_count, second_count),
                       trend |-> IF second_count > first_count THEN "up" ELSE "down"] >>
              ELSE <<>>)
             \o GrowthTopicsFrom(fr, midpoint2, k + 1)

\* sorted(growth_topics, key=lambda x: abs(x['growth_rate']), reverse=True)[:5]
TrendingTopics(fr) ==
    LET growth_topics == GrowthTopicsFrom(fr, Median2(fr), 1)
    IN  Take(SortedDesc(growth_topics,
                        [i \in 1..Len(growth_topics) |-> Abs(growth_topics[i].growth_rate)]),
             MaxTrending)

\* df['year'].value_counts().sort_index(): the years that have rows, ascending
PostsPerYear(fr) ==
    LET js == SelectSeq([j \in 1..Len(fr.years) |-> j], LAMBDA j : RowsInYear(fr, j) > 0)
    IN  [i \in 1..Len(js) |-> [year |-> fr.years[js[i]], count |-> RowsInYear(fr, js[i])]]

\* an empty corpus: df['created_utc'].min() is NaT and NaT.strftime raises ValueError
InsightsRaises(fr) == FrameLen(fr) = 0

\* generate_insights(df) when it returns
generate_insights(fr) ==
    [total_posts |-> FrameLen(fr),
     years_analyzed |-> Len(PostsPerYear(fr)),
     topics_tracked |-> Len(fr.topics),
     trending_topics |-> TrendingTopics(fr),
     posts_per_year |-> PostsPerYear(fr)]

(***************************************************************************)
(* The reports as operations on the corpus.  Each is run once, on the       *)
(* corpus the specification starts with.                                    *)
(***************************************************************************)
Returns(name, value) ==
    /\ report = ""
    /\ report' = name /\ raised' = "" /\ result' = value
    /\ UNCHANGED <<textVars, topicVars, df, frame, n, n_words, runVars>>

Raises(name, exception) ==
    /\ report = ""
    /\ report' = name /\ raised' = exception /\ result' = None
    /\ UNCHANGED <<textVars, topicVars, df, frame, n, n_words, runVars>>

GenerateInsights ==
    IF InsightsRaises(frame)
    THEN Raises("insights", "ValueError")
    ELSE Returns("insights", generate_insights(frame))

GenerateTopicTrends == Returns("topic_trends", generate_topic_trends(df))

GenerateTopicDistribution ==
    \E vc \in value_counts(df) :
        Returns("topic_distribution", generate_topic_distribution(df, vc))

GenerateTopPosts ==
    \E vc \in value_counts(df) : Returns("top_posts", generate_top_posts(df, n, vc))

GenerateMonthlyTrends == Returns("monthly_trends", generate_monthly_trends(df))

GenerateTopicKeywords == Returns("topic_keywords", generate_topic_keywords(df))

ExtractKeywordsPerTopic ==
    Returns("keywords_per_topic", extract_keywords_per_topic(df, n_words))

(***************************************************************************)
(* Corpora of the reports: up to MaxPosts rows over three topics and three  *)
(* months of two years (September and October, so that the zero padding of  *)
(* the month decides the order of the keys).                                *)
(***************************************************************************)
MaxPosts == 3
TopN == 15

kw_road == <<"r","o","a","d">>

ReportRows ==
    { Row(t, c, 10, kw_road, NaN) :
        t \in {"Traffic", "Food", "General_Discussion"},
        c \in { <<2020, 9, 30>>, <<2020, 10, 1>>, <<2021, 1, 15>> } }

InitReports ==
    /\ df \in SeqsUpTo(ReportRows, MaxPosts)
    /\ frame = FrameOf(df)
    /\ n = TopN /\ n_words = 0
    /\ report = "" /\ raised = "" /\ result = None
    /\ IdleText /\ IdleTopic /\ IdleRun

NextReports ==
    \/ GenerateInsights
    \/ GenerateTopicTrends
    \/ GenerateTopicDistribution
    \/ GenerateTopPosts
    \/ GenerateMonthlyTrends
    \/ GenerateTopicKeywords

SpecReports == InitReports /\ [][NextReports]_vars

RowsOfYear(y) == {i \in 1..Len(df) : Year(df[i]) = y}
Counts(rec) == [k \in 1..Len(rec.counts) |-> rec.counts[k].count]

\* C5: the yearly trend has one record per year present in the data, in ascending
\* year order, and the counts of a record summed over the topics equal the number of
\* posts of that year.
C5_YearlyTrend ==
    report = "topic_trends" =>
        /\ Len(result) = Cardinality({Year(df[i]) : i \in 1..Len(df)})
        /\ \A j \in 1..Len(result) : RowsOfYear(result[j].year) # {}
        /\ \A j, k \in 1..Len(result) : j < k => result[j].year < result[k].year
        /\ \A j \in 1..Len(result) :
              SumSeq(Counts(result[j])) = Cardinality(RowsOfYear(result[j].year))

\* the trend of a corpus of three posts over two years and two topics, fed newest
\* first: the record of 2020 precedes that of 2021 and holds a zero
C5_Witness ==
    /\ report = "topic_trends"
    /\ Len(df) = 3 /\ Year(df[1]) = 2021 /\ Year(df[2]) = 2020 /\ Year(df[3]) = 2021
    /\ Len(result) = 2
    /\ \E k \in 1..Len(result[1].counts) : result[1].counts[k].count = 0
    /\ SumSeq(Counts(result[2])) = 2

\* C6: the topic distribution lists exactly the topics that have at least one post,
\* in descending order of count, and the listed counts sum to the number of posts.
C6_Distribution ==
    report = "topic_distribution" =>
        /\ Len(result) = Cardinality(TopicSet(df))
        /\ {result[k].name : k \in 1..Len(result)} = {Display(t) : t \in TopicSet(df)}
        /\ \A k \in 1..Len(result) :
              \E t \in TopicSet(df) :
                  result[k].name = Display(t) /\ result[k].value = TopicCount(df, t)
        /\ \A j, k \in 1..Len(result) : j < k => result[j].value >= result[k].value
        /\ SumSeq([k \in 1..Len(result) |-> result[k].value]) = Len(df)

\* the distribution of a corpus whose first post is of the rarer topic
C6_Witness ==
    /\ report = "topic_distribution"
    /\ Len(df) = 3 /\ TopicCount(df, df[1].topic) = 1
    /\ Len(result) = 2 /\ result[1].value = 2 /\ result[2].value = 1

\* C7: the monthly records are in ascending order of their 'YYYY-MM' key and every
\* monthly record carries one count for every topic a yearly record carries, 0 for a
\* topic that has no post in that month.
C7_MonthlyShape ==
    report = "monthly_trends" =>
        /\ \A j, k \in 1..Len(result) : j < k => StrLess(result[j].month, result[k].month)
        /\ \A j \in 1..Len(result) :
              \A t \in TopicSet(df) :
                 \E k \in 1..Len(result[j].counts) :
                    /\ result[j].counts[k].topic = t
                    /\ result[j].counts[k].count =
                          Cardinality({i \in 1..Len(df) :
                              YearMonth(df[i]) = result[j].month /\ df[i].topic = t})

\* C10: every report run on a corpus of zero posts ends in an error; none returns a
\* result for the empty corpus.
C10_EmptyCorpusRaises ==
    (df = <<>> /\ report # "") => raised # ""

(***************************************************************************)
(* Corpora of the growth analysis: frames over the years 2020 and 2021 of   *)
(* up to MaxFrameTopics topics, each with one of these (rows in 2020, rows  *)
(* in 2021):                                                                *)
(*   30, 53   +76.67 %, rounded 76.7                                          *)
(*   43, 10   -76.74 %, rounded -76.7                                         *)
(*    6,  0   -100 %                                                          *)
(*    5, 20   five rows in 2020                                               *)
(*   10, 13   +30 % exactly                                                   *)
(***************************************************************************)
MaxFrameTopics == 6

FrameYears == <<2020, 2021>>

FrameRows == { <<30, 53>>, <<43, 10>>, <<6, 0>>, <<5, 20>>, <<10, 13>> }

FrameTopicNames ==
    << "Traffic", "Housing_Rent", "Food", "Infrastructure", "Jobs_Career",
       "Safety_Law", "Culture_Events", "Language", "Social_Life", "Health" >>

Frames ==
    { [years |-> FrameYears,
       topics |-> [k \in 1..Len(rs) |-> [topic |-> FrameTopicNames[k], rows |-> rs[k]]]] :
        rs \in SeqsUpTo(FrameRows, MaxFrameTopics) }

InitInsights ==
    /\ frame \in Frames
    /\ df = None
    /\ n = 0 /\ n_words = 0
    /\ report = "" /\ raised = "" /\ result = None
    /\ IdleText /\ IdleTopic /\ IdleRun

NextInsights == GenerateInsights

SpecInsights == InitInsights /\ [][NextInsights]_vars

\* the first-half and second-half counts of the topic an entry of trending_topics
\* names: the posts with year <= median year, and the others
Halves(e, midpoint2) ==
    LET k == CHOOSE k \in 1..Len(frame.topics) : Display(frame.topics[k].topic) = e.topic
    IN  [first |-> FirstCount(frame, k, midpoint2),
         second |-> SecondCount(frame, k, midpoint2)]

\* the counts of the entries of a trending list
AllHalves(tt) ==
    LET midpoint2 == Median2(frame)
    IN  SubSeq([i \in 1..Len(tt) |-> Halves(tt[i], midpoint2)], 1, Len(tt))

\* the entries of trending_topics are topics of the corpus whose first-half count is
\* greater than 5 and whose |growth%| is greater than 30, at most 5 of them, each
\* with direction 'up' exactly when its growth is positive and 'down' otherwise;
\* h[i] are the counts of entry i
TrendingEntries(tt, h) ==
    /\ Len(tt) <= 5
    /\ \A i \in 1..Len(tt) :
          /\ \E k \in 1..Len(frame.topics) : Display(frame.topics[k].topic) = tt[i].topic
          /\ h[i].first > 5
          /\ Abs(h[i].second - h[i].first) * 100 > 30 * h[i].first
          /\ tt[i].trend = (IF h[i].second > h[i].first THEN "up" ELSE "down")
    /\ \A i, j \in 1..Len(tt) : i < j => tt[i].topic # tt[j].topic

\* C3 as stated: the trending list holds only topics with first-half count > 5 and
\* |growth%| > 30, has at most 5 entries with the direction of their growth, and is
\* sorted by |growth%| = |(second - first) / first * 100| descending.
C3_SortedByGrowth ==
    (report = "insights" /\ raised = "") =>
        LET tt == result.trending_topics
            h == AllHalves(tt)
        IN  /\ TrendingEntries(tt, h)
            /\ \A i, j \in 1..Len(tt) :
                  i < j => Abs(h[i].second - h[i].first) * h[j].first
                              >= Abs(h[j].second - h[j].first) * h[i].first

\* C3 amended: the trending list holds only topics with first-half count > 5 and
\* |growth%| > 30, has at most 5 entries with the direction of their growth, and is
\* sorted descending by the |growth_rate| its entries carry, which is the growth
\* rounded to one decimal place.
C3_SortedByRoundedGrowth ==
    (report = "insights" /\ raised = "") =>
        LET tt == result.trending_topics
            h == AllHalves(tt)
        IN  /\ TrendingEntries(tt, h)
            /\ \A i \in 1..Len(tt) :
                  /\ 2 * Abs(Abs(tt[i].growth_rate) * h[i].first
                             - Abs(h[i].second - h[i].first) * 1000) <= h[i].first
                  /\ (tt[i].growth_rate > 0) <=> (tt[i].trend = "up")
            /\ \A i, j \in 1..Len(tt) :
                  i < j => Abs(tt[i].growth_rate) >= Abs(tt[j].growth_rate)

\* six topics changed significantly, five are listed: the two of -100 % first, then
\* growth and decline that both round to 76.7
C3_Witness ==
    /\ report = "insights" /\ raised = ""
    /\ Len(frame.topics) = 6
    /\ \A k \in 1..6 : frame.topics[k].rows \in {<<6, 0>>, <<30, 53>>, <<43, 10>>}
    /\ Len(result.trending_topics) = 5
    /\ result.trending_topics[1].growth_rate = 0 - 1000
    /\ result.trending_topics[3].growth_rate = 767
    /\ result.trending_topics[3].trend = "up"
    /\ result.trending_topics[4].growth_rate = 0 - 767
    /\ result.trending_topics[4].trend = "down"

(***************************************************************************)
(* Corpora of generate_top_posts: up to MaxVarPosts posts of Traffic and    *)
(* Food with score 10 or 50, titled a, b, c, ... in order of ingestion,     *)
(* alone or after the posts of seven other topics that have 8, 7, ..., 2    *)
(* posts each, so that a corpus has up to nine topics.                      *)
(***************************************************************************)
MaxVarPosts == 4
MaxN == 2

FillerTopics ==
    << "Housing_Rent", "Infrastructure", "Jobs_Career", "Safety_Law",
       "Culture_Events", "Language", "Social_Life" >>

\* the posts of filler topic i: 9 - i posts, with scores 5 + i, 10 + i, ...
FillerRowsOf(i) ==
    [j \in 1..(9 - i) |->
        Row(FillerTopics[i], <<2019, 6, 1>>, 5 * j + i, <<"f">>, NaN)]

FillerRows == Concat([i \in 1..Len(FillerTopics) |-> FillerRowsOf(i)])

VarRows ==
    { [i \in 1..Len(v) |-> Row(v[i][1], <<2020, 1, 1>>, v[i][2], <<LowerLetters[i]>>, NaN)] :
        v \in SeqsUpTo({"Traffic", "Food"} \X {10, 50}, MaxVarPosts) }

InitTop ==
    /\ \E filler \in {<<>>, FillerRows}, v \in VarRows : df = filler \o v
    /\ n \in 0..MaxN \cup {TopN}
    /\ frame = <<>> /\ n_words = 0
    /\ report = "" /\ raised = "" /\ result = None
    /\ IdleText /\ IdleTopic /\ IdleRun

NextTop == GenerateTopPosts

SpecTop == InitTop /\ [][NextTop]_vars

\* row i is one of the up-to-3 highest-score posts of its topic, posts of equal score
\* taken in ingestion order
AmongTopOfTopic(i) ==
    Cardinality({j \in 1..Len(df) :
                    /\ df[j].topic = df[i].topic
                    /\ \/ df[j].score > df[i].score
                       \/ df[j].score = df[i].score /\ j < i}) < 3

\* fewer than 8 topics have more posts than topic t
AmongMostFrequent(t) ==
    Cardinality({u \in TopicSet(df) : TopicCount(df, u) > TopicCount(df, t)}) < 8

\* C4: generate_top_posts(df, n) returns at most n posts sorted by score descending,
\* each one of the up-to-3 highest-score posts (ties by ingestion order) of one of the
\* 8 most frequent topics; with two posts of one topic scoring 50 and 10 and n = 1
\* the output is exactly the score-50 post.
C4_TopPosts ==
    report = "top_posts" =>
        /\ Len(result) <= n
        /\ \A j, k \in 1..Len(result) : j < k => result[j].score >= result[k].score
        /\ \A k \in 1..Len(result) :
              \E i \in 1..Len(df) :
                  /\ result[k] = [topic |-> df[i].topic, title |-> df[i].title,
                                  year |-> df[i].created_utc[1], score |-> df[i].score]
                  /\ AmongTopOfTopic(i)
                  /\ AmongMostFrequent(df[i].topic)
        /\ (/\ n = 1 /\ Len(df) = 2 /\ df[1].topic = df[2].topic
            /\ {df[1].score, df[2].score} = {10, 50})
           => \E i \in 1..2 :
                 /\ df[i].score = 50
                 /\ result = << [topic |-> df[i].topic, title |-> df[i].title,
                                 year |-> df[i].created_utc[1], score |-> 50] >>

\* nine topics, Traffic with three posts of which the last scores 50 and Food, the
\* ninth topic by count, left out: the two posts returned are the two of greatest score
C4_Witness ==
    /\ report = "top_posts" /\ n = 2
    /\ Cardinality(TopicSet(df)) = 9
    /\ TopicCount(df, "Traffic") = 3 /\ TopicCount(df, "Food") = 1
    /\ df[Len(df)].topic = "Traffic" /\ df[Len(df)].score = 50
    /\ df[Len(df) - 1].topic = "Food" /\ df[Len(df) - 1].score = 50
    /\ Len(result) = 2
    /\ result[1].topic = "Traffic" /\ result[1].score = 50
    /\ result[2].topic = "Housing_Rent" /\ result[2].score = 41

(***************************************************************************)
(* Corpora of the keyword extraction: up to MaxKwPosts of these posts.      *)
(***************************************************************************)
MaxKwPosts == 3
MaxNWords == 2

W(ws) == Join(<<" ">>, ws)

kw_rent == <<"r","e","n","t">>
kw_flat == <<"f","l","a","t">>
kw_this == <<"t","h","i","s">>
kw_lake == <<"l","a","k","e">>
kw_cafe == <<"c","a","f","e">>
kw_dosa == <<"d","o","s","a">>
kw_menu == <<"m","e","n","u">>

KeywordRows ==
    { Row("Traffic", <<2020, 1, 1>>, 10, W(<<kw_road, kw_rent>>), NaN),
      Row("Traffic", <<2020, 1, 1>>, 10, W(<<kw_this, kw_flat, <<"p","g">>, kw_rent>>), <<>>),
      Row("Traffic", <<2020, 1, 1>>, 10, W(<<<<"R","e","n","t",",">>, kw_road>>), kw_flat),
      Row("Traffic", <<2020, 1, 1>>, 10,
          W(<<kw_lake, kw_park, kw_cafe, kw_dosa, kw_menu>>), kw_this),
      Row("Traffic", <<2020, 1, 1>>, 10,
          W(<<<<"w","w","w",".">> \o kw_flat, kw_road \o <<"2">>, kw_rent>>), NaN),
      Row("Food", <<2020, 1, 1>>, 10, W(<<kw_flat, kw_flat, kw_rent>>), kw_rent) }

InitKeywords ==
    /\ df \in SeqsUpTo(KeywordRows, MaxKwPosts)
    /\ n_words \in 0..MaxNWords
    /\ frame = <<>> /\ n = 0
    /\ report = "" /\ raised = "" /\ result = None
    /\ IdleText /\ IdleTopic /\ IdleRun

NextKeywords == ExtractKeywordsPerTopic \/ GenerateTopicKeywords

SpecKeywords == InitKeywords /\ [][NextKeywords]_vars

\* the position of the first occurrence of w in words
FirstIndex(words, w) == CHOOSE i \in 1..Len(words) : words[i] = w /\ \A j \in 1..(i-1) : words[j] # w

\* word a is ranked before word b: it is more frequent in words, or as frequent and
\* first met earlier
RankedBefore(words, a, b) ==
    \/ WordCount(words, a) > WordCount(words, b)
    \/ /\ WordCount(words, a) = WordCount(words, b)
       /\ FirstIndex(words, a) < FirstIndex(words, b)

\* ws are the (at most k) top-ranked words of the tokens, in rank order, none a stop
\* word or of length <= 3
TopRanked(ws, tokens, k, stop_words) ==
    /\ Len(ws) <= k
    /\ \A i \in 1..Len(ws) :
          /\ ws[i] \notin stop_words /\ Len(ws[i]) > 3
          /\ \E j \in 1..Len(tokens) : tokens[j] = ws[i]
    /\ \A i, j \in 1..Len(ws) : i < j => RankedBefore(tokens, ws[i], ws[j])
    /\ \A j \in 1..Len(tokens) :
          \/ \E i \in 1..Len(ws) : ws[i] = tokens[j]
          \/ tokens[j] \in stop_words \/ Len(tokens[j]) <= 3
          \/ Len(ws) = k /\ \A i \in 1..Len(ws) : RankedBefore(tokens, ws[i], tokens[j])

\* the tokens of the text of a topic: the whitespace-separated words of the
\* normalized titles and bodies, and the lower-case words of the titles
Tokens(t) ==
    LET rows == RowsOf(df, t)
    IN  Split(clean_text(Join(<<" ">>,
            [i \in 1..Len(rows) |-> FillNa(rows[i].title) \o <<" ">> \o FillNa(rows[i].selftext)])))

TitleTokens(t) ==
    LET rows == RowsOf(df, t)
    IN  FindWords(Lower(Join(<<" ">>, [i \in 1..Len(rows) |-> FillNa(rows[i].title)])))

\* C9: per-topic keyword extraction returns at most n tokens, none a stop word or of
\* length <= 3, ordered by descending frequency over the topic's posts, tokens of
\* equal frequency in the order of their first occurrence in the text.
C9_Keywords ==
    /\ report = "keywords_per_topic" =>
          \A k \in 1..Len(result) :
              TopRanked(result[k].words, Tokens(result[k].topic), n_words, StopWords)
    /\ report = "topic_keywords" =>
          \A k \in 1..Len(result) :
              TopRanked(result[k].words, TitleTokens(result[k].topic), 5,
                        DashboardStopWords)

\* 'road rent' then 'Rent, road' with body 'flat': rent and road both occur twice and
\* rent, met second, is ranked second; flat, met once, is cut off by n_words = 2
C9_Witness ==
    /\ report = "keywords_per_topic" /\ n_words = 2
    /\ Len(df) = 2
    /\ df[1].title = W(<<kw_road, kw_rent>>) /\ df[2].selftext = kw_flat
    /\ result = << [topic |-> "Traffic", words |-> <<kw_road, kw_rent>>] >>

(***************************************************************************)
(* clean_and_save_data of the collector.  A raw record (a dict decoded from *)
(* JSON) is [has, null, id, title, created_utc, selftext]: has is the set   *)
(* of its keys, null the keys whose value is None, and the other fields are *)
(* the values of the keys that are present and not None.  The columns       *)
(* author, score, num_comments, url, is_self and link_flair_text are read   *)
(* with post.get and a default and nothing is done to them; they are not    *)
(* modelled.  created_utc is kept as the timestamp.                         *)
(***************************************************************************)
SelftextLimit == 1000

PostKeys == {"id", "title", "created_utc", "selftext"}

\* post.get(key, default) of a key whose value is not None
Get(post, key, default) == IF key \in post.has THEN post[key] ELSE default

\* post.get(key, default) is None
IsNull(post, key) == key \in post.has /\ key \in post.null

\* building cleaned_post raises TypeError: datetime.fromtimestamp(None), or None[:1000]
CleanedPostRaises(post) == IsNull(post, "created_utc") \/ IsNull(post, "selftext")

\* the dict cleaned_post
CleanedPost(post) ==
    [id |-> Get(post, "id", <<>>),
     title |-> Get(post, "title", <<>>),
     created_utc |-> Get(post, "created_utc", 0),
     selftext |-> Take(Get(post, "selftext", <<>>), SelftextLimit)]

\* the list cleaned_posts after the loop: a record whose row raises is skipped
RECURSIVE CleanedPosts(_)
CleanedPosts(ps) ==
    IF ps = <<>> THEN <<>>
    ELSE (IF CleanedPostRaises(ps[1]) THEN <<>> ELSE <<CleanedPost(ps[1])>>)
         \o CleanedPosts(Tail(ps))

\* df.drop_duplicates(subset=['id']): keep='first'
DropDuplicates(rows) ==
    SelectSeq([i \in 1..Len(rows) |-> i],
              LAMBDA i : \A j \in 1..(i - 1) : rows[j].id # rows[i].id)

\* df.sort_values('created_utc'): quicksort, which is not stable, so rows of equal
\* created_utc come in any order.  The orders of the positions ix of rows.
SortOrders(rows, ix) ==
    { o \in Perms({ix[k] : k \in 1..Len(ix)}) :
        \A j, k \in 1..Len(o) : j < k => rows[o[j]].created_utc <= rows[o[k]].created_utc }

\* df = clean_and_save_data(all_posts, filename)
CleanAndSaveData ==
    /\ report = ""
    /\ LET rows == CleanedPosts(all_posts)
       IN  \E o \in SortOrders(rows, DropDuplicates(rows)) :
              ingested' = [k \in 1..Len(o) |-> rows[o[k]]]
    /\ report' = "clean_and_save_data"
    /\ UNCHANGED <<textVars, topicVars, df, frame, n, n_words, raised, result,
                   all_posts, collectVars, mainVars>>

(***************************************************************************)
(* Raw records: complete ones, ones that lack a key, and ones in which the  *)
(* value of selftext or created_utc is null.  The title of a record is its  *)
(* position in all_posts.                                                   *)
(***************************************************************************)
MaxRaw == 3

Raw(i, c, absent, null) ==
    [has |-> PostKeys \ absent, null |-> null, id |-> <<i>>, title |-> <<>>,
     created_utc |-> c, selftext |-> <<"s">>]

RawPosts ==
    { Raw("a", 2, {}, {}), Raw("a", 1, {}, {}), Raw("b", 1, {}, {}),
      Raw("a", 1, {"id"}, {}), Raw("b", 1, {"selftext"}, {}),
      Raw("b", 1, {"created_utc"}, {}),
      Raw("a", 1, {}, {"selftext"}), Raw("b", 2, {}, {"created_utc"}) }

InitIngest ==
    /\ \E ps \in SeqsUpTo(RawPosts, MaxRaw) :
          all_posts = [i \in 1..Len(ps) |-> [ps[i] EXCEPT !.title = <<LowerLetters[i]>>]]
    /\ ingested = None
    /\ IdleCollect /\ IdleMain
    /\ IdleText /\ IdleTopic /\ IdleReports

NextIngest == CleanAndSaveData

SpecIngest == InitIngest /\ [][NextIngest]_vars

\* the id a record is saved under: its id, '' when it has none
IdOf(post) == IF "id" \in post.has THEN post.id ELSE <<>>

\* a record with the default in the place of every value it lacks
Repaired(post) ==
    [id |-> IdOf(post),
     title |-> IF "title" \in post.has \ post.null THEN post.title ELSE <<>>,
     created_utc |-> IF "created_utc" \in post.has \ post.null THEN post.created_utc ELSE 0,
     selftext |-> IF "selftext" \in post.has \ post.null THEN post.selftext ELSE <<>>]

\* C11: every raw record is kept, with defaults for what it lacks, unless its id
\* duplicates the id of an earlier record; of the records of one id the first is the
\* one kept.
C11_IngestKeepsRecords ==
    report = "clean_and_save_data" =>
        /\ \A i \in 1..Len(all_posts) :
              \E k \in 1..Len(ingested) : ingested[k].id = IdOf(all_posts[i])
        /\ \A k \in 1..Len(ingested) :
              \E i \in 1..Len(all_posts) :
                 /\ ingested[k] = Repaired(all_posts[i])
                 /\ \A j \in 1..(i - 1) : IdOf(all_posts[j]) # IdOf(all_posts[i])
        /\ \A j, k \in 1..Len(ingested) : j # k => ingested[j].id # ingested[k].id

(***************************************************************************)
(* main of the dashboard generator.  The dict display of dashboard_data     *)
(* evaluates its seven values in the order written, and an exception in one *)
(* of them ends main; dashboard_data holds the items evaluated so far, as   *)
(* [key, value].  OUTPUT_FILE is [state, content]: "untouched" until        *)
(* open(filename, 'w'), which truncates it, "open" until json.dump has      *)
(* written the document, then "written".                                    *)
(***************************************************************************)
INPUT_FILE == "bangalore_with_topics.csv"

SectionKeys ==
    << "metadata", "insights", "topic_trends", "topic_distribution", "top_posts",
       "monthly_trends", "topic_keywords" >>

Section(key, value) == [key |-> key, value |-> value]

\* some value of the dict display has been evaluated
AssembledInPart(d) == Len(d) >= 1

\* every value of the dict display has been evaluated: save_dashboard_data is called
Assembled(d) == Len(d) = Len(SectionKeys)

\* main is evaluating the k-th value of the dict display
Computing(k) ==
    /\ raised = "" /\ output_file.state = "untouched"
    /\ Len(dashboard_data) = k - 1

Adds(value) ==
    /\ dashboard_data' = Append(dashboard_data, Section(SectionKeys[Len(dashboard_data) + 1], value))
    /\ UNCHANGED <<textVars, topicVars, reportVars, ingestVars, collectVars,
                   output_file, loaded>>

\* the exception leaves main
Fails(exception) ==
    /\ raised' = exception
    /\ UNCHANGED <<textVars, topicVars, df, frame, n, n_words, report, result, runVars>>

\* post['title'][:100] of a title that is NaN, a float: TypeError
TopPostsRaises(d, vc) ==
    \E k \in 1..Min(Len(vc), TopTopics) :
        LET topic_df == NLargest(RowsOf(d, vc[k]), PerTopic)
        IN  \E i \in 1..Len(topic_df) : topic_df[i].title = NaN

MainMetadata ==
    /\ Computing(1)
    /\ Adds([generated_at |-> "now", source_file |-> INPUT_FILE])

MainInsights ==
    /\ Computing(2)
    /\ IF InsightsRaises(frame) THEN Fails("ValueError")
       ELSE Adds(generate_insights(frame))

MainTopicTrends == Computing(3) /\ Adds(generate_topic_trends(df))

MainTopicDistribution ==
    /\ Computing(4)
    /\ \E vc \in value_counts(df) : Adds(generate_topic_distribution(df, vc))

MainTopPosts ==
    /\ Computing(5)
    /\ \E vc \in value_counts(df) :
          IF TopPostsRaises(df, vc) THEN Fails("TypeError")
          ELSE Adds(generate_top_posts(df, n, vc))

MainMonthlyTrends == Computing(6) /\ Adds(generate_monthly_trends(df))

MainTopicKeywords == Computing(7) /\ Adds(generate_topic_keywords(df))

(***************************************************************************)
(* save_dashboard_data and json.load of the dashboard.  What json.dump      *)
(* writes is modelled as the JSON value: a list is an array, a dict an      *)
(* object whose member names are strings, str(key) for a key that is an     *)
(* int, and an int is its decimal digits.  json.load reads an object as a   *)
(* dict whose keys are the member names, str, and the digits as an int.     *)
(* The dicts of the sections other than insights have str keys only; they   *)
(* are written and read as they are.  A key read back is [type, repr].      *)
(***************************************************************************)
\* str(x) of an int x >= 0
RECURSIVE Str(_)
Str(x) == IF x < 10 THEN <<Digits[x + 1]>> ELSE Str(x \div 10) \o <<Digits[(x % 10) + 1]>>

\* int(ds) of decimal digits
RECURSIVE ParseInt(_)
ParseInt(ds) ==
    IF ds = <<>> THEN 0
    ELSE 10 * ParseInt(SubSeq(ds, 1, Len(ds) - 1))
         + (CHOOSE v \in 0..9 : Digits[v + 1] = ds[Len(ds)])

\* the JSON object of insights['posts_per_year'], a dict {int: int}
DumpsYears(posts_per_year) ==
    [i \in 1..Len(posts_per_year) |->
        [name |-> Str(posts_per_year[i].year), value |-> Str(posts_per_year[i].count)]]

LoadsYears(members) ==
    [i \in 1..Len(members) |->
        [key |-> [type |-> "str", repr |-> members[i].name],
         count |-> ParseInt(members[i].value)]]

DumpsSection(section) ==
    IF section.key = "insights"
    THEN Section(section.key,
                 [section.value EXCEPT
                     !.total_posts = Str(@), !.years_analyzed = Str(@),
                     !.topics_tracked = Str(@), !.posts_per_year = DumpsYears(@)])
    ELSE section

LoadsSection(section) ==
    IF section.key = "insights"
    THEN Section(section.key,
                 [section.value EXCEPT
                     !.total_posts = ParseInt(@), !.years_analyzed = ParseInt(@),
                     !.topics_tracked = ParseInt(@), !.posts_per_year = LoadsYears(@)])
    ELSE section

\* json.dump(data, f, indent=2, ensure_ascii=False)
Dumps(data) == [i \in 1..Len(data) |-> DumpsSection(data[i])]

\* json.load(f)
Loads(content) == [i \in 1..Len(content) |-> LoadsSection(content[i])]

\* with open(filename, 'w', encoding='utf-8') as f
SaveOpen ==
    /\ raised = "" /\ Assembled(dashboard_data)
    /\ output_file.state = "untouched"
    /\ output_file' = [state |-> "open", content |-> <<>>]
    /\ UNCHANGED <<textVars, topicVars, reportVars, ingestVars, collectVars,
                   dashboard_data, loaded>>

\* json.dump(data, f, ...)
SaveDump ==
    /\ output_file.state = "open"
    /\ output_file' = [state |-> "written", content |-> Dumps(dashboard_data)]
    /\ UNCHANGED <<textVars, topicVars, reportVars, ingestVars, collectVars,
                   dashboard_data, loaded>>

\* data = json.load(f) of the dashboard
LoadData ==
    /\ output_file.state = "written" /\ ~loaded.read
    /\ loaded' = [read |-> TRUE, document |-> Loads(output_file.content)]
    /\ UNCHANGED <<textVars, topicVars, reportVars, ingestVars, collectVars,
                   dashboard_data, output_file>>

(***************************************************************************)
(* Corpora of main: up to MaxPosts posts of two topics and two years, one   *)
(* of them with a title that is NaN.                                        *)
(***************************************************************************)
MainRows ==
    { Row(t, c, 10, kw_road, NaN) :
        t \in {"Traffic", "Food"}, c \in { <<2020, 9, 30>>, <<2021, 1, 15>> } }
    \cup { Row("Food", <<2021, 1, 15>>, 20, NaN, NaN) }

InitMain ==
    /\ df \in SeqsUpTo(MainRows, MaxPosts)
    /\ frame = FrameOf(df)
    /\ n = TopN /\ n_words = 0
    /\ report = "" /\ raised = "" /\ result = None
    /\ IdleText /\ IdleTopic /\ IdleIngest /\ IdleCollect /\ IdleMain

NextMain ==
    \/ MainMetadata
    \/ MainInsights
    \/ MainTopicTrends
    \/ MainTopicDistribution
    \/ MainTopPosts
    \/ MainMonthlyTrends
    \/ MainTopicKeywords
    \/ SaveOpen
    \/ SaveDump
    \/ LoadData

SpecMain == InitMain /\ [][NextMain]_vars

\* C12: the output file is opened for writing only after all seven sections have been
\* computed, in the order metadata, insights, topic_trends, topic_distribution,
\* top_posts, monthly_trends, topic_keywords; if a report fails, the output file is
\* left untouched.
C12_OutputAfterSections ==
    /\ output_file.state # "untouched" =>
          /\ raised = ""
          /\ [i \in 1..Len(dashboard_data) |-> dashboard_data[i].key] = SectionKeys
    /\ raised # "" => output_file = Untouched

\* the file has been opened on a corpus of three posts, after seven sections
C12_Witness ==
    /\ output_file.state = "open"
    /\ Len(df) = 3 /\ Len(dashboard_data) = 7
    /\ dashboard_data[7].key = "topic_keywords"

\* the sections of a document other than insights
OtherSections(d) == {i \in 1..Len(d) : d[i].key # "insights"}

\* C14: the document read back from the output file has the keys, the key order and
\* the values of the document main assembled, the keys of insights['posts_per_year']
\* being the years as int.
C14_JsonRoundTrip ==
    loaded.read =>
        LET doc == loaded.document
        IN  /\ [i \in 1..Len(doc) |-> doc[i].key]
                  = [i \in 1..Len(dashboard_data) |-> dashboard_data[i].key]
            /\ \A i \in OtherSections(dashboard_data) : doc[i].value = dashboard_data[i].value
            /\ \A i \in 1..Len(doc) \ OtherSections(dashboard_data) :
                  LET got == doc[i].value
                      was == dashboard_data[i].value
                  IN  /\ got.total_posts = was.total_posts
                      /\ got.years_analyzed = was.years_analyzed
                      /\ got.topics_tracked = was.topics_tracked
                      /\ got.trending_topics = was.trending_topics
                      /\ Len(got.posts_per_year) = Len(was.posts_per_year)
                      /\ \A k \in 1..Len(was.posts_per_year) :
                            /\ got.posts_per_year[k].count = was.posts_per_year[k].count
                            /\ got.posts_per_year[k].key
                                  = [type |-> "int", repr |-> Str(was.posts_per_year[k].year)]

(***************************************************************************)
(* main of the topic modeling script: it reads the CSV, where an empty cell *)
(* is NaN, and calls analyze_topics with the taxonomy it is configured      *)
(* with; nothing looks at the taxonomy before assign_topic does.  The       *)
(* taxonomies here are those of Taxonomies, an empty one, one without the   *)
(* fallback, and one with a keyword that occurs in 'nan'.                   *)
(***************************************************************************)
kw_nan == <<"n","a","n">>

ConfiguredTaxonomies ==
    Taxonomies
    \cup { <<>>,
           << Item("Traffic", <<kw_bus>>), Item("Food", <<kw_eat>>) >>,
           << Item("Traffic", <<kw_bus>>), Item("Food", <<kw_eat, kw_nan>>),
              Item(FALLBACK, <<>>) >> }

InitClassify ==
    /\ title \in PostTexts(MaxTitleFrags) \cup {NaN}
    /\ selftext \in {NaN, <<>>, kw_bus}
    /\ topic_keywords \in ConfiguredTaxonomies
    /\ topic = NoTopic
    /\ IdleText /\ IdleReports /\ IdleRun

NextClassify == Assign

SpecClassify == InitClassify /\ [][NextClassify]_vars

\* C13: for an empty taxonomy, or a taxonomy without the fallback topic, no post is
\* classified: classification never returns a topic.
C13_MalformedTaxonomyRejected ==
    (topic_keywords = <<>> \/ FALLBACK \notin TopicNames(topic_keywords))
        => topic = NoTopic

\* C15: a post whose body is absent (NaN) is given the topic it is given with the
\* empty string as body, and the absent body adds no characters to the text scored.
C15_AbsentBodyAsEmpty ==
    (topic # NoTopic /\ selftext = NaN) =>
        /\ topic = assign_topic(title, <<>>, topic_keywords)
        /\ CombinedText(title, selftext) = CombinedText(title, <<>>)

(***************************************************************************)
(* collect_year_data of the collector.  Time is counted in seconds from     *)
(* the start of the year, which lasts YearSeconds.  A page, the list        *)
(* get_posts_pushshift returns, is [len, last]: its length and the          *)
(* created_utc of its last post; a request that fails returns the empty     *)
(* list.  The source returns posts whose created_utc is at least the        *)
(* 'after' it was asked for; it may return more posts than asked, and posts *)
(* later than 'before'.  Of all_posts the length, n_posts, is kept.         *)
(***************************************************************************)
POSTS_PER_REQUEST == 100
YearSeconds == 6

\* start = int(datetime(year, 1, 1).timestamp())
YearStart == 0

\* end = int(datetime(year, 12, 31, 23, 59, 59).timestamp())
YearEnd == YearStart + YearSeconds - 1

PageLens == {1, POSTS_PER_REQUEST - 1, POSTS_PER_REQUEST, POSTS_PER_REQUEST + 1}

\* get_posts_pushshift(SUBREDDIT, after, before, POSTS_PER_REQUEST)
Pages(after, before) ==
    { [len |-> 0, last |-> 0] }
    \cup { [len |-> l, last |-> c] : l \in PageLens, c \in after..(before + 1) }

\* the cursor left where the last post is
SameAfter(page) == page.last

\* current_after = posts[-1]['created_utc'] + 1
NextAfter(page) == page.last + 1

\* one pass through the body of the while loop
Fetch ==
    /\ pc = "loop" /\ current_after < YearEnd
    /\ \E page \in Pages(current_after, YearEnd) :
          /\ posts' = page
          /\ IF page.len = 0
             THEN pc' = "done" /\ UNCHANGED <<current_after, n_posts>>
             ELSE /\ n_posts' = n_posts + page.len
                  /\ current_after' = NextAfter(page)
                  /\ pc' = IF page.len < POSTS_PER_REQUEST THEN "done" ELSE "loop"
    /\ UNCHANGED <<textVars, topicVars, reportVars, ingestVars, mainVars>>

\* the loop test fails
LoopEnd ==
    /\ pc = "loop" /\ ~(current_after < YearEnd)
    /\ pc' = "done"
    /\ UNCHANGED <<textVars, topicVars, reportVars, ingestVars, mainVars,
                   current_after, n_posts, posts>>

InitCollect ==
    /\ current_after = YearStart /\ n_posts = 0 /\ posts = None /\ pc = "loop"
    /\ IdleText /\ IdleTopic /\ IdleReports /\ IdleIngest /\ IdleMain

NextCollect == Fetch \/ LoopEnd

\* the loop runs on: a request returns or times out after 30 s
SpecCollect == InitCollect /\ [][NextCollect]_vars /\ WF_vars(NextCollect)

\* C16: the cursor strictly increases on every pass that continues the loop, which
\* only a full page does; the loop ends, and when it has ended the last page was
\* empty or shorter than 100 posts, or the cursor has reached the end of the year.
C16_CursorTerminates ==
    /\ [][(pc = "loop" /\ pc' = "loop") =>
            (current_after' > current_after /\ posts'.len >= POSTS_PER_REQUEST)]_vars
    /\ [](pc = "done" =>
            (posts.len < POSTS_PER_REQUEST \/ current_after >= YearEnd))
    /\ <>(pc = "done")

\* the loop has ended on the cursor reaching the end of the year after two full pages
C16_Witness ==
    /\ pc = "done" /\ current_after >= YearEnd
    /\ posts.len = POSTS_PER_REQUEST /\ n_posts = 2 * POSTS_PER_REQUEST

=============================================================================
